---- MODULE Spec2Model ----
(***************************************************************************)
(* Model of src/style/selectormatcher.rs: the selector matcher of the      *)
(* magician style engine.  A match call takes a node of the DOM tree and a *)
(* selector and either returns a bool or panics (unimplemented!()).        *)
(***************************************************************************)
EXTENDS Integers, Sequences, FiniteSets, TLC

VARIABLES tree, dom_node, selector, callee, result

vars == <<tree, dom_node, selector, callee, result>>

(* ---------------------------------------------------------------------- *)
(* Bounds of the model                                                     *)
(* ---------------------------------------------------------------------- *)
MaxAttrLen == 3       \* longest attribute value of a node, in characters
MaxValLen == 2        \* longest compared value of an attribute selector
MaxChildren == 4      \* longest sibling list
MaxDepth == 2         \* deepest nesting of :not() / :matches()

(* ---------------------------------------------------------------------- *)
(* Option<T> and String                                                    *)
(* ---------------------------------------------------------------------- *)
None == <<>>
Some(x) == <<x>>
unwrap_or(opt, default) == IF opt = None THEN default ELSE opt[1]

\* A String whose contents are inspected is a sequence of characters.
Chars == {"v", "V", "1", "-", " "}

RECURSIVE StringsOfLen(_)
StringsOfLen(n) ==
    IF n = 0 THEN {<<>>}
    ELSE {Append(s, c) : s \in StringsOfLen(n - 1), c \in Chars}

StringsUpTo(n) == UNION {StringsOfLen(k) : k \in 0..n}

is_whitespace(c) == c = " "

char_to_lowercase(c) == IF c = "V" THEN "v" ELSE c

to_lowercase(s) == [i \in 1..Len(s) |-> char_to_lowercase(s[i])]

starts_with(s, p) == Len(p) <= Len(s) /\ SubSeq(s, 1, Len(p)) = p

ends_with(s, p) ==
    Len(p) <= Len(s) /\ SubSeq(s, Len(s) - Len(p) + 1, Len(s)) = p

contains(s, p) ==
    \E i \in 1..(Len(s) + 1) :
        i + Len(p) - 1 <= Len(s) /\ SubSeq(s, i, i + Len(p) - 1) = p

\* str::split_whitespace: the maximal runs of non-whitespace characters, in
\* order; cur is the word being read.
RECURSIVE split_from(_, _, _)
split_from(s, i, cur) ==
    IF i > Len(s) THEN (IF cur = <<>> THEN <<>> ELSE <<cur>>)
    ELSE IF is_whitespace(s[i])
         THEN (IF cur = <<>> THEN <<>> ELSE <<cur>>) \o split_from(s, i + 1, <<>>)
         ELSE split_from(s, i + 1, Append(cur, s[i]))

split_whitespace(s) == split_from(s, 1, <<>>)

\* Iterator::map over the words
map_to_lowercase(words) == [i \in 1..Len(words) |-> to_lowercase(words[i])]
map_to_string(words) == [i \in 1..Len(words) |-> words[i]]

\* Iterator::collect::<HashSet<_>>()
collect_hash_set(words) == {words[i] : i \in 1..Len(words)}

\* format!("{}-", val)
format_hyphen(val) == Append(val, "-")

(* ---------------------------------------------------------------------- *)
(* The node tree (magicparser::DomNode), an arena indexed by node number   *)
(* ---------------------------------------------------------------------- *)
ElemTypes == {"A", "P"}
Ids == {"id1", "id2"}
Classes == {"cl1", "cl2"}
AttrNames == {"id", "attr"}

\* DomNode::new(elem_type, id, classes, attrs, parent, children)
DomNode(elem_type, id, classes, attrs, parent, children) ==
    [elem_type |-> elem_type, id |-> id, classes |-> classes,
     attrs |-> attrs, parent |-> parent, children |-> children]

\* HashMap::get: None when the key is absent, Some(slot) otherwise
attrs_get(attrs, key) ==
    IF key \in DOMAIN attrs THEN Some(attrs[key]) ELSE None

\* DomNodeRef::parent
parent_of(t, n) == t[n].parent

\* DomNodeRef::child_index: None without a parent, otherwise the 1-based
\* position of the node itself (by identity) among its parent's children.
child_index(t, n) ==
    IF t[n].parent = None THEN None
    ELSE LET siblings == t[t[n].parent[1]].children
         IN  IF \E i \in 1..Len(siblings) : siblings[i] = n
             THEN Some(CHOOSE i \in 1..Len(siblings) :
                          siblings[i] = n /\ \A j \in 1..(i - 1) : siblings[j] # n)
             ELSE None

(* ---------------------------------------------------------------------- *)
(* The selector AST (magicparser::Selector)                                *)
(* ---------------------------------------------------------------------- *)
SimpleSelector(elem_type, id, classes, universal) ==
    [elem_type |-> elem_type, id |-> id, classes |-> classes,
     universal |-> universal]

AttrSelector(attr, op_val, case_insensitive) ==
    [attr |-> attr, op_val |-> op_val, case_insensitive |-> case_insensitive]

AttrSelectorOps ==
    {"Exactly", "ExactlyOne", "ExactlyOrHyphen", "Prefixed", "Suffixed",
     "ContainsAtLeastOne"}

NthA(n) == [kind |-> "A", a |-> n, op |-> None, b |-> 0]
NthAnOpB(a, op, b) == [kind |-> "AnOpB", a |-> a, op |-> op, b |-> b]

\* PseudoClassSelector: Matches(sel), Not(sel), FirstChild, LastChild,
\* NthChild(expr) and the variants the matcher does not implement.
PcsMatches(sel) == [pcs |-> "Matches", arg |-> sel]
PcsNot(sel) == [pcs |-> "Not", arg |-> sel]
PcsFirstChild == [pcs |-> "FirstChild", arg |-> None]
PcsLastChild == [pcs |-> "LastChild", arg |-> None]
PcsNthChild(expr) == [pcs |-> "NthChild", arg |-> expr]
PcsOther(name) == [pcs |-> name, arg |-> None]

SupportedPcs == {"Matches", "Not", "FirstChild", "LastChild", "NthChild"}
OtherPcs == {"Hover", "NthLastChild"}

SelSimple(s) == [kind |-> "Simple", sel |-> s]
SelAttr(s) == [kind |-> "Attr", sel |-> s]
SelPseudo(p) == [kind |-> "Pseudo", sel |-> p]
\* every other Selector form (compound and combinator selectors)
SelOther(name) == [kind |-> name, sel |-> None]

OtherSelectorKinds == {"Seq", "Combinator"}

(* ---------------------------------------------------------------------- *)
(* Outcome of a call: a returned bool, or the panic of unimplemented!()    *)
(* ---------------------------------------------------------------------- *)
Return(b) == [tag |-> "Return", value |-> b]
Panic == [tag |-> "Panic", value |-> FALSE]
NotCalled == [tag |-> "NotCalled", value |-> FALSE]

\* the ! operator applied to the value of a call that may have unwound
negate(r) == IF r.tag = "Return" THEN Return(~r.value) ELSE r

(* ---------------------------------------------------------------------- *)
(* NthExpr::matches                                                        *)
(* ---------------------------------------------------------------------- *)
Abs(x) == IF x < 0 THEN -x ELSE x

signed_b(expr) ==
    IF expr.op = None THEN 0
    ELSE IF expr.op[1] = "Add" THEN expr.b ELSE 0 - expr.b

nth_matches(expr, position) ==
    IF expr.kind = "A" THEN position = expr.a
    ELSE LET s == signed_b(expr)
         IN  IF expr.a = 0 THEN position = s
             ELSE \E k \in 0..Abs(position - s) : position = expr.a * k + s

(* ---------------------------------------------------------------------- *)
(* The matchers                                                            *)
(* ---------------------------------------------------------------------- *)
\* a variant in which the universal selector skips the class check
matches_simple_selector_universal_first(t, n, sel) ==
    LET node == t[n]
    IN  IF sel.elem_type # None /\ sel.elem_type[1] # node.elem_type
        THEN FALSE
        ELSE IF /\ sel.id # None /\ node.id # None
                /\ sel.id[1] # node.id[1]
        THEN FALSE
        ELSE IF sel.universal
        THEN TRUE
        ELSE IF sel.classes # {} /\ ~(sel.classes \subseteq node.classes)
        THEN FALSE
        ELSE TRUE

matches_simple_selector(t, n, sel) ==
    LET node == t[n]
    IN  IF sel.elem_type # None /\ sel.elem_type[1] # node.elem_type
        THEN FALSE
        ELSE IF /\ sel.id # None /\ node.id # None
                /\ sel.id[1] # node.id[1]
        THEN FALSE
        ELSE IF sel.classes # {} /\ ~(sel.classes \subseteq node.classes)
        THEN FALSE
        ELSE TRUE

\* the arms of the match on op in matches_attr_selector
op_exactly(attr_value, val, case_insensitive) ==
    IF case_insensitive
    THEN to_lowercase(attr_value) = to_lowercase(val)
    ELSE attr_value = val

\* a variant that looks for val anywhere in the value, not among its words
op_exactly_one_substring(attr_value, val, case_insensitive) ==
    IF case_insensitive
    THEN contains(to_lowercase(attr_value), to_lowercase(val))
    ELSE contains(attr_value, val)

op_exactly_one(attr_value, val, case_insensitive) ==
    IF case_insensitive
    THEN LET words == collect_hash_set(map_to_lowercase(split_whitespace(attr_value)))
         IN  to_lowercase(val) \in words
    ELSE LET words == collect_hash_set(map_to_string(split_whitespace(attr_value)))
         IN  val \in words

\* a variant that accepts any word starting with val, hyphen or not
op_exactly_or_hyphen_any_prefix(attr_value, val, case_insensitive) ==
    IF case_insensitive
    THEN LET pred(s) == starts_with(to_lowercase(s), to_lowercase(val))
             words == split_whitespace(attr_value)
         IN  \E i \in 1..Len(words) : pred(words[i])
    ELSE LET pred(s) == starts_with(s, val)
             words == split_whitespace(attr_value)
         IN  \E i \in 1..Len(words) : pred(words[i])

op_exactly_or_hyphen(attr_value, val, case_insensitive) ==
    IF case_insensitive
    THEN LET pred(s) ==
                 \/ to_lowercase(s) = to_lowercase(val)
                 \/ starts_with(to_lowercase(s), format_hyphen(to_lowercase(val)))
             words == split_whitespace(attr_value)
         IN  \E i \in 1..Len(words) : pred(words[i])
    ELSE LET pred(s) == s = val \/ starts_with(s, format_hyphen(val))
             words == split_whitespace(attr_value)
         IN  \E i \in 1..Len(words) : pred(words[i])

\* a variant that folds the case of the attribute value only
op_prefixed_val_not_folded(attr_value, val, case_insensitive) ==
    IF case_insensitive
    THEN starts_with(to_lowercase(attr_value), val)
    ELSE starts_with(attr_value, val)

op_prefixed(attr_value, val, case_insensitive) ==
    IF case_insensitive
    THEN starts_with(to_lowercase(attr_value), to_lowercase(val))
    ELSE starts_with(attr_value, val)

op_suffixed(attr_value, val, case_insensitive) ==
    IF case_insensitive
    THEN ends_with(to_lowercase(attr_value), to_lowercase(val))
    ELSE ends_with(attr_value, val)

op_contains_at_least_one(attr_value, val, case_insensitive) ==
    IF case_insensitive
    THEN contains(to_lowercase(attr_value), to_lowercase(val))
    ELSE contains(attr_value, val)

attr_op_matches(op, attr_value, val, case_insensitive) ==
    CASE op = "Exactly" -> op_exactly(attr_value, val, case_insensitive)
      [] op = "ExactlyOne" -> op_exactly_one(attr_value, val, case_insensitive)
      [] op = "ExactlyOrHyphen" ->
           op_exactly_or_hyphen(attr_value, val, case_insensitive)
      [] op = "Prefixed" -> op_prefixed(attr_value, val, case_insensitive)
      [] op = "Suffixed" -> op_suffixed(attr_value, val, case_insensitive)
      [] op = "ContainsAtLeastOne" ->
           op_contains_at_least_one(attr_value, val, case_insensitive)

\* a variant that takes the empty value slot for the empty string
matches_attr_selector_empty_slot(t, n, sel) ==
    LET attrs == t[n].attrs
        slot == attrs_get(attrs, sel.attr)
    IN  IF sel.op_val # None
        THEN IF slot # None
             THEN attr_op_matches(sel.op_val[1][1], unwrap_or(slot[1], <<>>),
                                  sel.op_val[1][2], sel.case_insensitive)
             ELSE FALSE
        ELSE slot # None

\* a variant whose presence test asks for a value in the slot
matches_attr_selector_needs_value(t, n, sel) ==
    LET attrs == t[n].attrs
        slot == attrs_get(attrs, sel.attr)
    IN  IF sel.op_val # None
        THEN IF slot # None /\ slot[1] # None
             THEN attr_op_matches(sel.op_val[1][1], slot[1][1],
                                  sel.op_val[1][2], sel.case_insensitive)
             ELSE FALSE
        ELSE slot # None /\ slot[1] # None

matches_attr_selector(t, n, sel) ==
    LET attrs == t[n].attrs
        slot == attrs_get(attrs, sel.attr)
    IN  IF sel.op_val # None
        THEN IF slot # None /\ slot[1] # None
             THEN attr_op_matches(sel.op_val[1][1], slot[1][1],
                                  sel.op_val[1][2], sel.case_insensitive)
             ELSE FALSE
        ELSE slot # None

RECURSIVE matches(_, _, _)
RECURSIVE matches_pseudo_class_selector(_, _, _)

\* the FirstChild arm
first_child(t, n) == unwrap_or(child_index(t, n), 1) = 1

\* a variant of the LastChild arm that takes the last index for len() - 1
last_child_off_by_one(t, n) ==
    LET parent == parent_of(t, n)
    IN  unwrap_or(child_index(t, n), 1) =
            IF parent # None
            THEN Len(t[parent[1]].children) - 1
            ELSE 1

\* the LastChild arm
last_child(t, n) ==
    LET parent == parent_of(t, n)
    IN  unwrap_or(child_index(t, n), 1) =
            IF parent # None
            THEN Len(t[parent[1]].children)
            ELSE 1

\* a variant of the NthChild arm that hands over a 0-based index
nth_child_zero_based(t, n, expr) ==
    LET index == unwrap_or(child_index(t, n), 1) - 1
    IN  nth_matches(expr, index)

\* the NthChild arm
nth_child(t, n, expr) ==
    LET index == unwrap_or(child_index(t, n), 1)
    IN  nth_matches(expr, index)

matches_pseudo_class_selector(t, n, sel) ==
    CASE sel.pcs = "Matches" -> matches(t, n, sel.arg)
      [] sel.pcs = "Not" -> negate(matches(t, n, sel.arg))
      [] sel.pcs = "FirstChild" -> Return(first_child(t, n))
      [] sel.pcs = "LastChild" -> Return(last_child(t, n))
      [] sel.pcs = "NthChild" -> Return(nth_child(t, n, sel.arg))
      [] OTHER -> Panic

matches(t, n, sel) ==
    CASE sel.kind = "Simple" -> Return(matches_simple_selector(t, n, sel.sel))
      [] sel.kind = "Attr" -> Return(matches_attr_selector(t, n, sel.sel))
      [] OTHER -> Panic

(* ---------------------------------------------------------------------- *)
(* The inputs of a call: trees as the tests build them, and selectors      *)
(* ---------------------------------------------------------------------- *)
NoAttrs == <<>>

\* The tree of a call: the node under test alone (siblings = 0), or a parent
\* (node 0) with children 1..siblings, the node under test at position pos.
\* The other children are structurally identical to one another.
MkTree(elem_type, id, classes, attrs, pos, siblings) ==
    IF siblings = 0
    THEN [i \in {0} |-> DomNode(elem_type, id, classes, attrs, None, <<>>)]
    ELSE [i \in 0..siblings |->
            IF i = 0
            THEN DomNode("A", None, {}, NoAttrs, None, [j \in 1..siblings |-> j])
            ELSE IF i = pos
            THEN DomNode(elem_type, id, classes, attrs, Some(0), <<>>)
            ELSE DomNode("A", None, {}, NoAttrs, Some(0), <<>>)]

Positions ==
    {<<0, 0>>} \cup {<<p, n>> : p \in 1..MaxChildren, n \in 1..MaxChildren}

ValidPositions == {pn \in Positions : pn[1] <= pn[2]}

OptionOf(S) == {None} \cup {Some(x) : x \in S}

SimpleSelectors ==
    {SimpleSelector(e, i, c, u) :
        e \in OptionOf(ElemTypes), i \in OptionOf(Ids),
        c \in SUBSET Classes, u \in BOOLEAN}

\* attrs of the node under test: no "id" key, the key with an empty value
\* slot, or the key with a value
NodeAttrs ==
    {NoAttrs} \cup {("id" :> v) : v \in OptionOf(StringsUpTo(MaxAttrLen))}

OpVals ==
    OptionOf({<<op, val>> : op \in AttrSelectorOps, val \in StringsUpTo(MaxValLen)})

AttrSelectors ==
    {AttrSelector(a, ov, ci) : a \in AttrNames, ov \in OpVals, ci \in BOOLEAN}

NthExprs ==
    {NthA(n) : n \in 1..MaxChildren}
    \cup {NthAnOpB(a, op, b) :
            a \in (-1)..2, op \in OptionOf({"Add", "Subtract"}), b \in 0..2}

Leaves ==
    {SelSimple(SimpleSelector(Some("A"), None, {}, FALSE)),
     SelSimple(SimpleSelector(None, Some("id1"), {"cl1"}, FALSE)),
     SelAttr(AttrSelector("id", None, FALSE)),
     SelAttr(AttrSelector("id", Some(<<"Exactly", <<"v">>>>), FALSE)),
     SelPseudo(PcsFirstChild), SelPseudo(PcsLastChild)}
    \cup {SelPseudo(PcsNthChild(e)) : e \in NthExprs}
    \cup {SelPseudo(PcsOther(p)) : p \in OtherPcs}
    \cup {SelOther(k) : k \in OtherSelectorKinds}

\* selectors with at most d levels of :not() / :matches() around a leaf
RECURSIVE Nested(_)
Nested(d) ==
    IF d = 0 THEN Leaves
    ELSE Leaves
         \cup {SelPseudo(PcsNot(s)) : s \in Nested(d - 1)}
         \cup {SelPseudo(PcsMatches(s)) : s \in Nested(d - 1)}

\* contents of the node under test in the calls with pseudo-class selectors
PlainNode == [elem_type |-> "A", id |-> None, classes |-> {}, attrs |-> NoAttrs]
RichNode ==
    [elem_type |-> "P", id |-> Some("id1"), classes |-> {"cl1"},
     attrs |-> ("id" :> Some(<<"v">>))]

(* ---------------------------------------------------------------------- *)
(* The state machine: one call of one of the four functions on an input    *)
(* ---------------------------------------------------------------------- *)
InitSimple ==
    \E e \in ElemTypes, i \in OptionOf(Ids), c \in SUBSET Classes,
       s \in SimpleSelectors :
        /\ tree = MkTree(e, i, c, NoAttrs, 0, 0)
        /\ dom_node = 0
        /\ selector = SelSimple(s)

InitAttr ==
    \E attrs \in NodeAttrs, s \in AttrSelectors :
        /\ tree = MkTree("A", None, {}, attrs, 0, 0)
        /\ dom_node = 0
        /\ selector = SelAttr(s)

InitPseudo ==
    \E c \in {PlainNode, RichNode}, pn \in ValidPositions,
       s \in Nested(MaxDepth) :
        /\ tree = MkTree(c.elem_type, c.id, c.classes, c.attrs, pn[1], pn[2])
        /\ dom_node = pn[1]
        /\ selector = s

Init ==
    /\ InitSimple \/ InitAttr \/ InitPseudo
    /\ callee = "none"
    /\ result = NotCalled

CallMatches ==
    /\ callee = "none"
    /\ callee' = "matches"
    /\ result' = matches(tree, dom_node, selector)
    /\ UNCHANGED <<tree, dom_node, selector>>

CallMatchesSimple ==
    /\ callee = "none"
    /\ selector.kind = "Simple"
    /\ callee' = "matches_simple_selector"
    /\ result' = Return(matches_simple_selector(tree, dom_node, selector.sel))
    /\ UNCHANGED <<tree, dom_node, selector>>

CallMatchesAttr ==
    /\ callee = "none"
    /\ selector.kind = "Attr"
    /\ callee' = "matches_attr_selector"
    /\ result' = Return(matches_attr_selector(tree, dom_node, selector.sel))
    /\ UNCHANGED <<tree, dom_node, selector>>

\* a variant of the call that takes the sibling list out of the parent
CallMatchesPseudo_takes_siblings ==
    /\ callee = "none"
    /\ selector.kind = "Pseudo"
    /\ callee' = "matches_pseudo_class_selector"
    /\ result' = matches_pseudo_class_selector(tree, dom_node, selector.sel)
    /\ tree' = IF tree[dom_node].parent # None
               THEN [tree EXCEPT ![tree[dom_node].parent[1]].children = <<>>]
               ELSE tree
    /\ UNCHANGED <<dom_node, selector>>

CallMatchesPseudo ==
    /\ callee = "none"
    /\ selector.kind = "Pseudo"
    /\ callee' = "matches_pseudo_class_selector"
    /\ result' = matches_pseudo_class_selector(tree, dom_node, selector.sel)
    /\ UNCHANGED <<tree, dom_node, selector>>

Next == CallMatches \/ CallMatchesSimple \/ CallMatchesAttr \/ CallMatchesPseudo

Spec == Init /\ [][Next]_vars

(* ---------------------------------------------------------------------- *)
(* Properties                                                              *)
(* ---------------------------------------------------------------------- *)
\* the outcome the specification asks of a selector the matcher does not
\* implement
UnsupportedSelector == [tag |-> "UnsupportedSelector", value |-> FALSE]

node_under_test == tree[dom_node]

\* a selector variant outside the supported set
IsUnsupportedVariant(sel) ==
    \/ sel.kind \notin {"Simple", "Attr", "Pseudo"}
    \/ sel.kind = "Pseudo" /\ sel.sel.pcs \notin SupportedPcs

\* C1: matches(node, selector) on a selector variant outside the supported
\* set (another pseudo-class, a compound or combinator form) yields the
\* UnsupportedSelector outcome: no crash and no plain true or false.
C1_UnsupportedOutcome ==
    (callee = "matches" /\ IsUnsupportedVariant(selector))
        => result = UnsupportedSelector

\* C2: the dispatcher routes Selector::Pseudo(p) to the pseudo-class
\* matcher: whenever matches_pseudo_class_selector(node, p) returns a bool
\* for a supported p, matches(node, Selector::Pseudo(p)) returns that bool.
C2_PseudoRouted ==
    (/\ callee = "matches"
     /\ selector.kind = "Pseudo"
     /\ selector.sel.pcs \in SupportedPcs
     /\ matches_pseudo_class_selector(tree, dom_node, selector.sel).tag = "Return")
        => result = matches_pseudo_class_selector(tree, dom_node, selector.sel)

\* C3: a simple selector whose id is set matches only a node whose id is
\* set and equal to it; a node without an id never matches it.
C3_IdRequired ==
    (/\ callee = "matches_simple_selector"
     /\ selector.sel.id # None
     /\ node_under_test.id # selector.sel.id)
        => result = Return(FALSE)

\* C4: with elem_type and id unset, matches_simple_selector is true iff the
\* selector's classes are a subset of the node's classes, whatever the
\* universal flag is.
C4_ClassesSubset ==
    (/\ callee = "matches_simple_selector"
     /\ selector.sel.elem_type = None
     /\ selector.sel.id = None)
        => result = Return(\A c \in selector.sel.classes :
                              c \in node_under_test.classes)

\* C4 witness: a universal selector with a class the node lacks was tried
C4_Witness ==
    /\ callee = "matches_simple_selector"
    /\ selector.sel.elem_type = None
    /\ selector.sel.id = None
    /\ selector.sel.universal
    /\ selector.sel.classes = {"cl2"}
    /\ node_under_test.classes = {"cl1"}
    /\ result = Return(FALSE)

\* a selector every part of which is in the supported set
RECURSIVE IsSupported(_)
IsSupported(sel) ==
    \/ sel.kind \in {"Simple", "Attr"}
    \/ /\ sel.kind = "Pseudo"
       /\ \/ sel.sel.pcs \in {"FirstChild", "LastChild", "NthChild"}
          \/ sel.sel.pcs \in {"Not", "Matches"} /\ IsSupported(sel.sel.arg)

\* an unsupported variant, possibly under levels of :not() / :matches()
RECURSIVE IsUnsupported(_)
IsUnsupported(sel) ==
    \/ IsUnsupportedVariant(sel)
    \/ /\ sel.kind = "Pseudo"
       /\ sel.sel.pcs \in {"Not", "Matches"}
       /\ IsUnsupported(sel.sel.arg)

\* C5: for a supported inner selector of any kind, matches(node, Not(sel))
\* is the negation of matches(node, sel) and matches(node, Matches(sel)) is
\* equal to matches(node, sel), both being booleans.
C5_NotNegatesMatchesPasses ==
    (/\ callee = "matches"
     /\ selector.kind = "Pseudo"
     /\ selector.sel.pcs \in {"Not", "Matches"}
     /\ IsSupported(selector.sel.arg))
        => LET inner == matches(tree, dom_node, selector.sel.arg)
           IN  /\ inner.tag = "Return"
               /\ result = IF selector.sel.pcs = "Not"
                           THEN Return(~inner.value)
                           ELSE Return(inner.value)

\* C6: Not(inner) and Matches(inner) over an unsupported inner selector
\* yield UnsupportedSelector themselves, at every nesting depth.
C6_UnsupportedPropagates ==
    (/\ callee \in {"matches", "matches_pseudo_class_selector"}
     /\ selector.kind = "Pseudo"
     /\ selector.sel.pcs \in {"Not", "Matches"}
     /\ IsUnsupported(selector.sel.arg))
        => result = UnsupportedSelector

\* C7: an attribute selector without op_val matches iff its attribute name
\* is a key of the node's attrs, with or without a value in the slot.
C7_PresenceOnly ==
    (callee = "matches_attr_selector" /\ selector.sel.op_val = None)
        => result = Return(selector.sel.attr \in DOMAIN node_under_test.attrs)

\* C7 witness: the key is there with an empty value slot, and it matched
C7_Witness ==
    /\ callee = "matches_attr_selector"
    /\ selector.sel.op_val = None
    /\ selector.sel.attr \in DOMAIN node_under_test.attrs
    /\ node_under_test.attrs[selector.sel.attr] = None
    /\ result = Return(TRUE)

\* the node has no value to compare: key absent, or its value slot empty
NoValueFor(attr) ==
    \/ attr \notin DOMAIN node_under_test.attrs
    \/ node_under_test.attrs[attr] = None

\* C8: an attribute selector with an operator and a value returns false,
\* for every operator and case mode, when the node has no value for the
\* attribute (key absent, or present with an empty value slot).
C8_NoValueNoMatch ==
    (/\ callee = "matches_attr_selector"
     /\ selector.sel.op_val # None
     /\ NoValueFor(selector.sel.attr))
        => result = Return(FALSE)

\* C8 witness: the empty string was compared against an empty value slot
C8_Witness ==
    /\ callee = "matches_attr_selector"
    /\ selector.sel.op_val = Some(<<"Exactly", <<>>>>)
    /\ selector.sel.attr \in DOMAIN node_under_test.attrs
    /\ node_under_test.attrs[selector.sel.attr] = None
    /\ result = Return(FALSE)

\* s[i..j] is a whitespace-delimited word of s
IsWordAt(s, i, j) ==
    /\ 1 <= i /\ i <= j /\ j <= Len(s)
    /\ \A k \in i..j : s[k] # " "
    /\ i = 1 \/ s[i - 1] = " "
    /\ j = Len(s) \/ s[j + 1] = " "

\* the call under way compares the node's value with operator op
ComparesWith(op, case_insensitive) ==
    /\ callee = "matches_attr_selector"
    /\ selector.sel.op_val # None
    /\ selector.sel.op_val[1][1] = op
    /\ selector.sel.case_insensitive = case_insensitive
    /\ ~NoValueFor(selector.sel.attr)

attr_value_of_call == node_under_test.attrs[selector.sel.attr][1]
val_of_call == selector.sel.op_val[1][2]

\* C9: case-sensitive ExactlyOrHyphen matches iff some whitespace-delimited
\* word of the attribute value is the compared value, or begins with the
\* compared value followed by "-".
C9_ExactlyOrHyphen ==
    ComparesWith("ExactlyOrHyphen", FALSE)
        => result = Return(
             \E i \in 1..Len(attr_value_of_call), j \in 1..Len(attr_value_of_call) :
                /\ IsWordAt(attr_value_of_call, i, j)
                /\ LET word == SubSeq(attr_value_of_call, i, j)
                       n == Len(val_of_call)
                   IN  \/ word = val_of_call
                       \/ /\ Len(word) >= n + 1
                          /\ SubSeq(word, 1, n) = val_of_call
                          /\ word[n + 1] = "-")

\* C9 witness: "v-1" matched the compared value "v"
C9_Witness ==
    /\ ComparesWith("ExactlyOrHyphen", FALSE)
    /\ attr_value_of_call = <<"v", "-", "1">>
    /\ val_of_call = <<"v">>
    /\ result = Return(TRUE)

\* C10: case-sensitive ExactlyOne matches iff the compared value is one of
\* the whitespace-delimited words of the attribute value; a proper part of
\* a word does not match.
C10_ExactlyOne ==
    ComparesWith("ExactlyOne", FALSE)
        => result = Return(
             \E i \in 1..Len(attr_value_of_call), j \in 1..Len(attr_value_of_call) :
                /\ IsWordAt(attr_value_of_call, i, j)
                /\ SubSeq(attr_value_of_call, i, j) = val_of_call)

\* C10 witness: "v" is a proper part of the only word of "v1 " and did not
\* match
C10_Witness ==
    /\ ComparesWith("ExactlyOne", FALSE)
    /\ attr_value_of_call = <<"v", "1", " ">>
    /\ val_of_call = <<"v">>
    /\ result = Return(FALSE)

\* the call under way is matches_pseudo_class_selector with pseudo-class pcs
CallsPseudo(pcs) ==
    /\ callee = "matches_pseudo_class_selector"
    /\ selector.sel.pcs = pcs

has_parent == node_under_test.parent # None

\* the children of the parent of the node under test
siblings_of_call == tree[node_under_test.parent[1]].children

\* the children of the parent that the pseudo-class pcs accepts
AcceptedSiblings(pcs) ==
    {i \in 1..Len(siblings_of_call) :
        matches_pseudo_class_selector(tree, siblings_of_call[i],
                                      [pcs |-> pcs, arg |-> None]) = Return(TRUE)}

\* C11: among the n >= 1 children of a parent, FirstChild is true of the
\* child at position 1 and of no other, LastChild of the child at position n
\* and of no other; a node without a parent satisfies both.
C11_FirstLastChild ==
    /\ (CallsPseudo("FirstChild") /\ has_parent)
          => /\ result = Return(siblings_of_call[1] = dom_node)
             /\ AcceptedSiblings("FirstChild") = {1}
    /\ (CallsPseudo("LastChild") /\ has_parent)
          => /\ result = Return(siblings_of_call[Len(siblings_of_call)] = dom_node)
             /\ AcceptedSiblings("LastChild") = {Len(siblings_of_call)}
    /\ ((CallsPseudo("FirstChild") \/ CallsPseudo("LastChild")) /\ ~has_parent)
          => result = Return(TRUE)

\* C11 witness: the last of four children was asked for LastChild
C11_Witness ==
    /\ CallsPseudo("LastChild")
    /\ has_parent
    /\ Len(siblings_of_call) = 4
    /\ siblings_of_call[4] = dom_node
    /\ result = Return(TRUE)

\* the 1-based position of the node under test among its siblings, 1 for a
\* node without a parent
position_of_call ==
    IF has_parent
    THEN CHOOSE i \in 1..Len(siblings_of_call) : siblings_of_call[i] = dom_node
    ELSE 1

\* d is a * k for an integer k >= 0, a # 0, in exact integer arithmetic
IsNonNegativeMultiple(d, a) ==
    \/ d = 0
    \/ /\ (d > 0) = (a > 0)
       /\ (IF d < 0 THEN 0 - d ELSE d) % (IF a < 0 THEN 0 - a ELSE a) = 0

\* the offset s of AnOpB(a, op, b): b for Add, -b for Subtract, 0 without op
OffsetOf(expr) ==
    CASE expr.op = None -> 0
      [] expr.op = Some("Add") -> expr.b
      [] expr.op = Some("Subtract") -> 0 - expr.b

\* C12: NthChild(AnOpB(a, op, b)) with a # 0 is true iff the child index of
\* the node (1 without a parent) is a * k + s for an integer k >= 0, in
\* exact integer arithmetic.
C12_NthChildAnOpB ==
    (/\ CallsPseudo("NthChild")
     /\ selector.sel.arg.kind = "AnOpB"
     /\ selector.sel.arg.a # 0)
        => result = Return(IsNonNegativeMultiple(
                              position_of_call - OffsetOf(selector.sel.arg),
                              selector.sel.arg.a))

\* C12 witness: 2n+1 accepted the third of four children
C12_Witness ==
    /\ CallsPseudo("NthChild")
    /\ selector.sel.arg = NthAnOpB(2, Some("Add"), 1)
    /\ has_parent
    /\ Len(siblings_of_call) = 4
    /\ position_of_call = 3
    /\ result = Return(TRUE)

\* C13: a match call, whatever the node, the selector and the outcome,
\* leaves every field of every node of the tree as it was.
C13_TreeUnchanged == [][tree' = tree]_vars

\* C13 witness: a call on a child of a parent with siblings ended in the
\* panic of an unimplemented selector under :not()
C13_Witness ==
    /\ callee = "matches_pseudo_class_selector"
    /\ selector.sel.pcs = "Not"
    /\ has_parent
    /\ Len(siblings_of_call) > 1
    /\ node_under_test.attrs # NoAttrs
    /\ result = Panic

\* the call under way compares the node's value, with any operator
ComparesValue(case_insensitive) ==
    /\ callee = "matches_attr_selector"
    /\ selector.sel.op_val # None
    /\ selector.sel.case_insensitive = case_insensitive
    /\ ~NoValueFor(selector.sel.attr)

op_of_call == selector.sel.op_val[1][1]

\* lowercasing, letter by letter
Lower(s) == [i \in 1..Len(s) |-> IF s[i] = "V" THEN "v" ELSE s[i]]

\* the words of s: its maximal runs of characters other than " "
WordsOf(s) ==
    {SubSeq(s, ij[1], ij[2]) :
        ij \in {x \in (1..Len(s)) \X (1..Len(s)) : IsWordAt(s, x[1], x[2])}}

\* the case-sensitive meaning of the six operators on a value a and a
\* compared value v, the words being given
Sensitive(op, a, v, words) ==
    CASE op = "Exactly" -> a = v
      [] op = "ExactlyOne" -> v \in words
      [] op = "ExactlyOrHyphen" ->
           \E w \in words : w = v \/ starts_with(w, v \o <<"-">>)
      [] op = "Prefixed" -> starts_with(a, v)
      [] op = "Suffixed" -> ends_with(a, v)
      [] op = "ContainsAtLeastOne" -> contains(a, v)

\* C14: for each of the six operators the case-insensitive result is the
\* case-sensitive result on the lowercased attribute value and lowercased
\* compared value, the words being lowercased before or after the split;
\* without case_insensitive the comparison is case-sensitive.
C14_CaseFolding ==
    /\ ComparesValue(TRUE)
          => LET a == Lower(attr_value_of_call)
                 v == Lower(val_of_call)
                 split_then_fold == {Lower(w) : w \in WordsOf(attr_value_of_call)}
             IN  /\ result = Return(Sensitive(op_of_call, a, v, WordsOf(a)))
                 /\ result = Return(Sensitive(op_of_call, a, v, split_then_fold))
    /\ ComparesValue(FALSE)
          => result = Return(Sensitive(op_of_call, attr_value_of_call, val_of_call,
                                       WordsOf(attr_value_of_call)))

\* C14 witness: case-insensitive Prefixed accepted "V1" for the value "v1v"
C14_Witness ==
    /\ ComparesValue(TRUE)
    /\ op_of_call = "Prefixed"
    /\ attr_value_of_call = <<"v", "1", "v">>
    /\ val_of_call = <<"V", "1">>
    /\ result = Return(TRUE)

====
